---- MODULE Spec2Model ----
(***************************************************************************)
(* Gameplay core of pong-bevy (src/src/main.rs): the fixed-timestep system *)
(* set move_ball, move_left_paddle, move_right_paddle, check_for_collisions*)
(* over the entities spawned by setup.                                     *)
(*                                                                         *)
(* Arithmetic.  The program computes in f32.  The model computes in exact  *)
(* fixed point: one model unit is 1/Scale of a world unit, so that one     *)
(* step SPEED * TIME_STEP = 200/60 = 10/3 world units is the integer Step. *)
(* Rounding error of f32 is not modelled.                                  *)
(***************************************************************************)
EXTENDS Integers, Sequences, FiniteSets

\* ---------------------------------------------------------------- bounds
\* Ticks explored from an initial state.
MaxTicks == 6

\* ------------------------------------------------------------- constants
WINDOW_WIDTH == 750
WINDOW_HEIGHT == 450
\* TIME_STEP = 1.0 / 60.0, kept as its denominator.
TIME_STEP_DEN == 60
GAP == 30
WALL_THINKNESS == 10
SPEED == 200
\* Model units per world unit (the denominator of SPEED * TIME_STEP = 10/3).
Scale == 3

Fx(n) == n * Scale

LEFT_WALL == -((WINDOW_WIDTH \div 2) - GAP)
RIGHT_WALL == (WINDOW_WIDTH \div 2) - GAP
TOP_WALL == (WINDOW_HEIGHT \div 2) - GAP
BOTTOM_WALL == -((WINDOW_HEIGHT \div 2) - GAP)

PADDLE_SIZE == [x |-> 10, y |-> 100]
PADDLE_LEFT == LEFT_WALL + GAP
PADDLE_RIGHT == RIGHT_WALL - GAP
BALL_SIZE == [x |-> 10, y |-> 10]

\* velocity * TIME_STEP * SPEED for a unit velocity, in model units.
Step == (Fx(SPEED)) \div TIME_STEP_DEN

Vec2(a, b) == [x |-> a, y |-> b]
FxVec(v) == Vec2(Fx(v.x), Fx(v.y))

\* ------------------------------------------------------------- entities
WallLocation == {"Left", "Right", "Top", "Bottom"}

WallEntity(location) == "Wall" \o location

Walls == {WallEntity(l) : l \in WallLocation}
Paddles == {"LeftPaddle", "RightPaddle"}

\* WallLocation::position
position(location) ==
    CASE location = "Left" -> Vec2(LEFT_WALL, 0)
      [] location = "Right" -> Vec2(RIGHT_WALL, 0)
      [] location = "Top" -> Vec2(0, TOP_WALL)
      [] location = "Bottom" -> Vec2(0, BOTTOM_WALL)

\* WallLocation::size
size(location) ==
    LET arena_width == RIGHT_WALL - LEFT_WALL
        arena_height == TOP_WALL - BOTTOM_WALL
    IN  IF location \in {"Left", "Right"}
        THEN Vec2(WALL_THINKNESS, arena_height + WALL_THINKNESS)
        ELSE Vec2(arena_width + WALL_THINKNESS, WALL_THINKNESS)

\* The order in which setup spawns the entities that take part in play
\* (the camera carries none of the queried components and is left out).
SpawnOrder ==
    << "WallLeft", "WallRight", "WallTop", "WallBottom",
       "LeftPaddle", "RightPaddle", "Ball" >>

Entities == {SpawnOrder[i] : i \in 1..Len(SpawnOrder)}

Movers == {"move_ball", "move_left_paddle", "move_right_paddle"}

VARIABLES
    components,        \* entity -> the marker/data components it carries
    translation,       \* entity -> Transform.translation (x, y), model units
    scale,             \* entity -> Transform.scale (x, y), model units
    velocity,          \* entity with a Velocity component -> Velocity
    collision_events,  \* CollisionEvents sent by the latest check_for_collisions
    ran,               \* movers that have run in the current fixed tick
    pressed,           \* keys the paddle systems found pressed in this tick
    tick,              \* fixed ticks completed since the initial state (in
                       \* SpecRally: since the last tick of the given keys)
    panicked           \* a single_mut() found no or several entities

vars == << components, translation, scale, velocity, collision_events,
           ran, pressed, tick, panicked >>

\* ---------------------------------------------------------------- setup
\* The components setup gives each spawned entity.
SetupComponents(e) ==
    CASE e \in Walls -> {"Transform", "Collider", "WallLocation"}
      [] e = "LeftPaddle" -> {"Transform", "LeftPaddle", "Collider"}
      [] e = "RightPaddle" -> {"Transform", "RightPaddle", "Collider"}
      [] e = "Ball" -> {"Transform", "Ball", "Velocity", "Collider"}

\* The WallLocation component of a wall entity (WallBundle::new, side).
side(e) == CHOOSE l \in WallLocation : WallEntity(l) = e

SetupTranslation(e) ==
    CASE e \in Walls -> FxVec(position(side(e)))
      [] e = "LeftPaddle" -> FxVec(Vec2(PADDLE_LEFT, 0))
      [] e = "RightPaddle" -> FxVec(Vec2(PADDLE_RIGHT, 0))
      [] e = "Ball" -> FxVec(Vec2(0, 0))

SetupScale(e) ==
    CASE e \in Walls -> FxVec(size(side(e)))
      [] e \in Paddles -> FxVec(PADDLE_SIZE)
      [] e = "Ball" -> FxVec(BALL_SIZE)

setup ==
    /\ components = [e \in Entities |-> SetupComponents(e)]
    /\ translation = [e \in Entities |-> SetupTranslation(e)]
    /\ scale = [e \in Entities |-> SetupScale(e)]
    /\ velocity = [e \in {"Ball"} |-> Vec2(1, 1)]
    /\ collision_events = 0
    /\ ran = {}
    /\ pressed = {}
    /\ tick = 0
    /\ panicked = FALSE

\* The system set with only move_ball ordered before check_for_collisions.
ScheduledAfterBallOnly(system) ==
    IF system = "check_for_collisions"
    THEN "move_ball" \in ran
    ELSE system \notin ran

\* The fixed-timestep system set of main: each system once per tick, the
\* three movers before check_for_collisions, in no fixed order among them.
Scheduled(system) ==
    IF system = "check_for_collisions" THEN ran = Movers ELSE system \notin ran

\* Query<_, With<...>>: the entities that carry all of the components.
Query(with) == {e \in DOMAIN components : with \subseteq components[e]}

\* -------------------------------------------------------------- collide
\* bevy::sprite::collide_aabb::collide as called by check_for_collisions:
\* None, or the side of b that a has hit (the smaller penetration decides,
\* the x side on a tie), Inside when neither axis shows a side.
Abs(n) == IF n < 0 THEN -n ELSE n

Infinity == Fx(WINDOW_WIDTH + WINDOW_HEIGHT) * Fx(WINDOW_WIDTH + WINDOW_HEIGHT)

collide(a_pos, a_size, b_pos, b_size) ==
    LET a_min == Vec2(a_pos.x - a_size.x \div 2, a_pos.y - a_size.y \div 2)
        a_max == Vec2(a_pos.x + a_size.x \div 2, a_pos.y + a_size.y \div 2)
        b_min == Vec2(b_pos.x - b_size.x \div 2, b_pos.y - b_size.y \div 2)
        b_max == Vec2(b_pos.x + b_size.x \div 2, b_pos.y + b_size.y \div 2)
        x_hit == IF a_min.x < b_min.x /\ a_max.x > b_min.x
                 THEN << "Left", b_min.x - a_max.x >>
                 ELSE IF a_min.x < b_max.x /\ a_max.x > b_max.x
                 THEN << "Right", a_min.x - b_max.x >>
                 ELSE << "Inside", -Infinity >>
        y_hit == IF a_min.y < b_min.y /\ a_max.y > b_min.y
                 THEN << "Bottom", b_min.y - a_max.y >>
                 ELSE IF a_min.y < b_max.y /\ a_max.y > b_max.y
                 THEN << "Top", a_min.y - b_max.y >>
                 ELSE << "Inside", -Infinity >>
    IN  IF /\ a_min.x < b_max.x /\ a_max.x > b_min.x
           /\ a_min.y < b_max.y /\ a_max.y > b_min.y
        THEN IF Abs(y_hit[2]) < Abs(x_hit[2]) THEN y_hit[1] ELSE x_hit[1]
        ELSE "None"

\* The collide call of check_for_collisions for collider e.
Collision(ball, e) ==
    collide(translation[ball], scale[ball], translation[e], scale[e])

\* ------------------------------------------------- check_for_collisions
\* Reflect with `+= -1.0` written for `*= -1.0`.
ReflectAdding(collision, v) ==
    LET reflect_x == CASE collision = "Left" -> v.x > 0
                       [] collision = "Right" -> v.x < 0
                       [] OTHER -> FALSE
        reflect_y == CASE collision = "Top" -> v.y < 0
                       [] collision = "Bottom" -> v.y > 0
                       [] OTHER -> FALSE
    IN  Vec2(IF reflect_x THEN v.x + (-1) ELSE v.x,
             IF reflect_y THEN v.y + (-1) ELSE v.y)

\* Reflect with the direction tests of the two x sides exchanged.
ReflectSwappedX(collision, v) ==
    LET reflect_x == CASE collision = "Left" -> v.x < 0
                       [] collision = "Right" -> v.x > 0
                       [] OTHER -> FALSE
        reflect_y == CASE collision = "Top" -> v.y < 0
                       [] collision = "Bottom" -> v.y > 0
                       [] OTHER -> FALSE
    IN  Vec2(IF reflect_x THEN v.x * (-1) ELSE v.x,
             IF reflect_y THEN v.y * (-1) ELSE v.y)

\* Reflect with Inside treated as a hit on the x axis.
ReflectInside(collision, v) ==
    LET reflect_x == CASE collision = "Left" -> v.x > 0
                       [] collision = "Right" -> v.x < 0
                       [] collision = "Inside" -> TRUE
                       [] OTHER -> FALSE
        reflect_y == CASE collision = "Top" -> v.y < 0
                       [] collision = "Bottom" -> v.y > 0
                       [] OTHER -> FALSE
    IN  Vec2(IF reflect_x THEN v.x * (-1) ELSE v.x,
             IF reflect_y THEN v.y * (-1) ELSE v.y)

\* Reflect with the direction tests of the two y sides exchanged.
ReflectSwappedY(collision, v) ==
    LET reflect_x == CASE collision = "Left" -> v.x > 0
                       [] collision = "Right" -> v.x < 0
                       [] OTHER -> FALSE
        reflect_y == CASE collision = "Top" -> v.y > 0
                       [] collision = "Bottom" -> v.y < 0
                       [] OTHER -> FALSE
    IN  Vec2(IF reflect_x THEN v.x * (-1) ELSE v.x,
             IF reflect_y THEN v.y * (-1) ELSE v.y)

\* Reflect without the direction tests: a side negates its axis whichever way
\* the ball is moving.
ReflectUnconditional(collision, v) ==
    LET reflect_x == collision \in {"Left", "Right"}
        reflect_y == collision \in {"Top", "Bottom"}
    IN  Vec2(IF reflect_x THEN v.x * (-1) ELSE v.x,
             IF reflect_y THEN v.y * (-1) ELSE v.y)

\* The match on the collision side and the two conditional negations.
Reflect(collision, v) ==
    LET reflect_x == CASE collision = "Left" -> v.x > 0
                       [] collision = "Right" -> v.x < 0
                       [] OTHER -> FALSE
        reflect_y == CASE collision = "Top" -> v.y < 0
                       [] collision = "Bottom" -> v.y > 0
                       [] OTHER -> FALSE
    IN  Vec2(IF reflect_x THEN v.x * (-1) ELSE v.x,
             IF reflect_y THEN v.y * (-1) ELSE v.y)

\* The loop body deciding on the velocity the ball had when the loop began
\* (a copy taken before the loop) instead of the velocity as reflected so far.
VisitColliderStale(ball, e, acc) ==
    LET collision == Collision(ball, e)
        reflected == Reflect(collision, velocity[ball])
    IN  IF collision = "None"
        THEN acc
        ELSE [velocity |->
                Vec2(IF reflected.x # velocity[ball].x
                     THEN acc.velocity.x * (-1) ELSE acc.velocity.x,
                     IF reflected.y # velocity[ball].y
                     THEN acc.velocity.y * (-1) ELSE acc.velocity.y),
              events |-> acc.events + 1]

\* The body of the for loop for one collider: an event and a reflection
\* when collide returns Some.
VisitCollider(ball, e, acc) ==
    LET collision == Collision(ball, e)
    IN  IF collision = "None"
        THEN acc
        ELSE [velocity |-> Reflect(collision, acc.velocity),
              events |-> acc.events + 1]

\* The for loop leaving at the first collider that is hit (a `break`).
RECURSIVE VisitCollidersFirstHit(_, _, _)
VisitCollidersFirstHit(ball, order, acc) ==
    IF order = << >>
    THEN acc
    ELSE IF Collision(ball, Head(order)) # "None"
         THEN VisitCollider(ball, Head(order), acc)
         ELSE VisitCollidersFirstHit(ball, Tail(order), acc)

\* The for loop over the collider query, in iteration order `order`.
RECURSIVE VisitColliders(_, _, _)
VisitColliders(ball, order, acc) ==
    IF order = << >>
    THEN acc
    ELSE VisitColliders(ball, Tail(order), VisitCollider(ball, Head(order), acc))

Overlapping(ball, colliders) ==
    {e \in colliders : Collision(ball, e) # "None"}

Orderings(S) ==
    {f \in [1..Cardinality(S) -> S] : \A i, j \in DOMAIN f : f[i] = f[j] => i = j}

\* The iteration orders of the collider query.  The engine fixes no order.
\* A collider that does not overlap the ball is skipped by the loop, so only
\* the relative order of the overlapping colliders is enumerated; the others
\* are visited first, in spawn order.
IterationOrders(ball, colliders) ==
    LET hit == Overlapping(ball, colliders)
        miss == SelectSeq(SpawnOrder, LAMBDA e : e \in colliders \ hit)
    IN  {miss \o p : p \in Orderings(hit)}

\* check_for_collisions taking the first ball of the query (iter_mut().next()
\* for single_mut()): it aborts on an empty query only.
check_for_collisions_first ==
    /\ ~panicked
    /\ Scheduled("check_for_collisions")
    /\ LET ball_query == Query({"Ball", "Velocity", "Transform"})
           collider_query == Query({"Collider", "Transform"})
       IN  IF ball_query = {}
           THEN /\ panicked' = TRUE
                /\ UNCHANGED << components, translation, scale, velocity,
                                collision_events, ran, pressed, tick >>
           ELSE LET ball == CHOOSE b \in ball_query : TRUE
                IN  \E order \in IterationOrders(ball, collider_query) :
                      LET out == VisitColliders(ball, order,
                                    [velocity |-> velocity[ball], events |-> 0])
                      IN  /\ velocity' = [velocity EXCEPT ![ball] = out.velocity]
                          /\ collision_events' = out.events
                          /\ ran' = {}
                          /\ pressed' = {}
                          /\ tick' = tick + 1
                          /\ UNCHANGED << components, translation, scale, panicked >>

check_for_collisions ==
    /\ ~panicked
    /\ Scheduled("check_for_collisions")
    /\ LET ball_query == Query({"Ball", "Velocity", "Transform"})
           collider_query == Query({"Collider", "Transform"})
       IN  IF Cardinality(ball_query) # 1
           THEN /\ panicked' = TRUE
                /\ UNCHANGED << components, translation, scale, velocity,
                                collision_events, ran, pressed, tick >>
           ELSE LET ball == CHOOSE b \in ball_query : TRUE
                IN  \E order \in IterationOrders(ball, collider_query) :
                      LET out == VisitColliders(ball, order,
                                    [velocity |-> velocity[ball], events |-> 0])
                      IN  /\ velocity' = [velocity EXCEPT ![ball] = out.velocity]
                          /\ collision_events' = out.events
                          /\ ran' = {}
                          /\ pressed' = {}
                          /\ tick' = tick + 1
                          /\ UNCHANGED << components, translation, scale, panicked >>

\* ------------------------------------------------------------ move_ball
MovedBy(t, v) == Vec2(t.x + v.x * Step, t.y + v.y * Step)

\* The translations move_ball leaves: every entity of its query advanced.
BallMoved(tr) ==
    [e \in DOMAIN tr |->
       IF e \in Query({"Transform", "Velocity"})
       THEN MovedBy(tr[e], velocity[e])
       ELSE tr[e]]

move_ball ==
    /\ ~panicked
    /\ tick < MaxTicks
    /\ Scheduled("move_ball")
    /\ translation' = BallMoved(translation)
    /\ ran' = ran \cup {"move_ball"}
    /\ UNCHANGED << components, scale, velocity, collision_events, pressed,
                    tick, panicked >>

\* ------------------------------------------------------ paddle_movement
Clamp(n, lo, hi) == IF n < lo THEN lo ELSE IF n > hi THEN hi ELSE n

top_bound == Fx(TOP_WALL) - Fx(WALL_THINKNESS) \div 2 - Fx(PADDLE_SIZE.y) \div 2
bottom_bound == Fx(BOTTOM_WALL) + Fx(WALL_THINKNESS) \div 2 + Fx(PADDLE_SIZE.y) \div 2

\* paddle_movement with `else if` for the down key: both keys held move up.
paddle_movement_elseif(t, up, down) ==
    LET position0 == IF up THEN 1 ELSE IF down THEN -1 ELSE 0
        new_translation == t.y + position0 * Step
    IN  [t EXCEPT !.y = Clamp(new_translation, bottom_bound, top_bound)]

\* paddle_movement writing translation.x for translation.y.
paddle_movement_x(t, up, down) ==
    LET position0 == (IF up THEN 1 ELSE 0) - (IF down THEN 1 ELSE 0)
        new_translation == t.x + position0 * Step
    IN  [t EXCEPT !.x = Clamp(new_translation, bottom_bound, top_bound)]

\* paddle_movement without the clamp.
paddle_movement_unclamped(t, up, down) ==
    LET position0 == (IF up THEN 1 ELSE 0) - (IF down THEN 1 ELSE 0)
    IN  [t EXCEPT !.y = t.y + position0 * Step]

\* The translation paddle_movement leaves in `t` for the key states up, down.
paddle_movement(t, up, down) ==
    LET position0 == (IF up THEN 1 ELSE 0) - (IF down THEN 1 ELSE 0)
        new_translation == t.y + position0 * Step
    IN  [t EXCEPT !.y = Clamp(new_translation, bottom_bound, top_bound)]

\* The marker of the query and the two keys of each paddle system.
PaddleSystems ==
    [move_left_paddle |-> [marker |-> "LeftPaddle", up |-> "W", down |-> "S"],
     move_right_paddle |-> [marker |-> "RightPaddle", up |-> "Up", down |-> "Down"]]

\* The translations paddle_movement leaves when called on paddle e with the
\* pressed keys `keys`.
PaddleMoved(tr, e, up, down, keys) ==
    [tr EXCEPT ![e] = paddle_movement(@, up \in keys, down \in keys)]

\* move_left_paddle / move_right_paddle: single_mut() on the marker's query,
\* then paddle_movement with that paddle's two keys.  The keyboard state is
\* an input: any subset of the two keys may be pressed when the system runs.
MovePaddle(system) ==
    /\ ~panicked
    /\ tick < MaxTicks
    /\ Scheduled(system)
    /\ LET sys == PaddleSystems[system]
           query == Query({"Transform", sys.marker})
       IN  IF Cardinality(query) # 1
           THEN /\ panicked' = TRUE
                /\ UNCHANGED << translation, ran, pressed >>
           ELSE LET e == CHOOSE p \in query : TRUE
                IN  \E keys \in SUBSET {sys.up, sys.down} :
                      /\ translation' =
                           PaddleMoved(translation, e, sys.up, sys.down, keys)
                      /\ pressed' = pressed \cup keys
                      /\ ran' = ran \cup {system}
                      /\ UNCHANGED panicked
    /\ UNCHANGED << components, scale, velocity, collision_events, tick >>

move_left_paddle == MovePaddle("move_left_paddle")

move_right_paddle == MovePaddle("move_right_paddle")

\* ------------------------------------------------------- specifications
Init == setup

Next ==
    \/ move_ball
    \/ move_left_paddle
    \/ move_right_paddle
    \/ check_for_collisions

Spec == Init /\ [][Next]_vars

\* Play in progress.  Each start is a state the game reaches from setup at
\* the end of a tick (ball position and paddle heights in Steps, velocity):
\*   tick 54   the ball, never yet deflected, two steps short of the top wall;
\*   tick 97   after the bounce off the top wall at tick 56, the ball past the
\*             right paddle and four steps short of the right wall;
\*   tick 502  after further bounces off the right wall (tick 101), the bottom
\*             wall (168), the top wall (280), the left wall (303), the left
\*             paddle (307), the left wall (311) and the bottom wall (392), the
\*             ball rising towards the corner of the top wall and the right
\*             paddle.
\* The paddles need 42 ticks from setup to reach either bound, and every pair
\* of paddle heights on the Step grid occurs with each of these ball states.
\* In none of them does the ball touch a wall or a paddle.
PlayStarts ==
    { [ball |-> Vec2(54, 54), v |-> Vec2(1, 1), left |-> 42, right |-> -42],
      [ball |-> Vec2(97, 15), v |-> Vec2(1, -1), left |-> -42, right |-> -41],
      [ball |-> Vec2(90, 54), v |-> Vec2(1, 1), left |-> 0, right |-> 38],
      [ball |-> Vec2(90, 54), v |-> Vec2(1, 1), left |-> 0, right |-> 40] }

InitPlay ==
    \E s \in PlayStarts :
      /\ components = [e \in Entities |-> SetupComponents(e)]
      /\ translation =
           [e \in Entities |->
              CASE e = "Ball" -> Vec2(s.ball.x * Step, s.ball.y * Step)
                [] e = "LeftPaddle" -> Vec2(Fx(PADDLE_LEFT), s.left * Step)
                [] e = "RightPaddle" -> Vec2(Fx(PADDLE_RIGHT), s.right * Step)
                [] OTHER -> SetupTranslation(e)]
      /\ scale = [e \in Entities |-> SetupScale(e)]
      /\ velocity = [e \in {"Ball"} |-> s.v]
      /\ collision_events = 1   \* the previous check met the ball's own collider
      /\ ran = {}
      /\ pressed = {}
      /\ tick = 0
      /\ panicked = FALSE

SpecPlay == InitPlay /\ [][Next]_vars

\* Play in progress at each of the four walls.  Again each start is a state
\* the game reaches from setup at the end of a tick, with the ball touching
\* nothing:
\*   tick 54   as in PlayStarts, two steps short of the top wall;
\*   tick 97   as in PlayStarts, four steps short of the right wall;
\*   tick 166  after the bounces off the top wall (tick 56) and the right wall
\*             (101), two steps short of the bottom wall;
\*   tick 299  after the further bounces off the bottom wall (168) and the top
\*             wall (280), past the left paddle and four steps short of the
\*             left wall;
\*   tick 357  after bounces off the top wall (tick 56), between the right
\*             paddle and the right wall (95 to 165) and off the bottom wall
\*             (246), rising to the left next to the left paddle, one step
\*             short of the top wall, the paddle five steps below its bound;
\*   tick 502  as in PlayStarts, rising towards the corner of the top wall
\*             and the right paddle.
WallStarts ==
    { [ball |-> Vec2(54, 54), v |-> Vec2(1, 1), left |-> 42, right |-> -42],
      [ball |-> Vec2(97, 15), v |-> Vec2(1, -1), left |-> -42, right |-> -41],
      [ball |-> Vec2(36, -54), v |-> Vec2(-1, -1), left |-> -42, right |-> 42],
      [ball |-> Vec2(-97, 37), v |-> Vec2(-1, -1), left |-> -42, right |-> -42],
      [ball |-> Vec2(-91, 55), v |-> Vec2(-1, 1), left |-> 37, right |-> -42],
      [ball |-> Vec2(90, 54), v |-> Vec2(1, 1), left |-> 0, right |-> 40] }

InitWalls ==
    \E s \in WallStarts :
      /\ components = [e \in Entities |-> SetupComponents(e)]
      /\ translation =
           [e \in Entities |->
              CASE e = "Ball" -> Vec2(s.ball.x * Step, s.ball.y * Step)
                [] e = "LeftPaddle" -> Vec2(Fx(PADDLE_LEFT), s.left * Step)
                [] e = "RightPaddle" -> Vec2(Fx(PADDLE_RIGHT), s.right * Step)
                [] OTHER -> SetupTranslation(e)]
      /\ scale = [e \in Entities |-> SetupScale(e)]
      /\ velocity = [e \in {"Ball"} |-> s.v]
      /\ collision_events = 1   \* the previous check met the ball's own collider
      /\ ran = {}
      /\ pressed = {}
      /\ tick = 0
      /\ panicked = FALSE

SpecWalls == InitWalls /\ [][Next]_vars

\* A rally played from setup.  The keys each player holds are given for the
\* first ticks as runs of equal ticks; after the last run the keys are free
\* again.  The ball bounces off the top wall (tick 56), is carried up and
\* down between the right paddle and the right wall (95 to 165), bounces off
\* the bottom wall (246) and rises to the left towards the top of the left
\* paddle, which is on its way up.
RallyLeft ==
    << [ticks |-> 42, keys |-> {"S"}], [ticks |-> 236, keys |-> {}],
       [ticks |-> 79, keys |-> {"W"}] >>

RallyRight ==
    << [ticks |-> 42, keys |-> {"Down"}], [ticks |-> 10, keys |-> {}],
       [ticks |-> 77, keys |-> {"Up"}], [ticks |-> 3, keys |-> {"Down"}],
       [ticks |-> 5, keys |-> {"Up"}], [ticks |-> 15, keys |-> {"Down"}],
       [ticks |-> 1, keys |-> {}], [ticks |-> 16, keys |-> {"Up"}],
       [ticks |-> 80, keys |-> {"Down"}], [ticks |-> 108, keys |-> {}] >>

RECURSIVE RunLength(_)
RunLength(runs) ==
    IF runs = << >> THEN 0 ELSE Head(runs).ticks + RunLength(Tail(runs))

\* The keys held in the t-th tick (from 0) of the runs.
RECURSIVE KeysAt(_, _)
KeysAt(runs, t) ==
    IF t < Head(runs).ticks
    THEN Head(runs).keys
    ELSE KeysAt(Tail(runs), t - Head(runs).ticks)

RallyTicks == RunLength(RallyLeft)

RallyKeys == [move_left_paddle |-> RallyLeft, move_right_paddle |-> RallyRight]

\* During the rally a paddle system finds the keys of the rally pressed.
\* The rally's ticks are counted below zero, so that tick 0 is the first
\* tick of free keys and MaxTicks bounds the free ticks as elsewhere.
RallyInput(system) ==
    tick < 0 =>
        pressed' \cap {PaddleSystems[system].up, PaddleSystems[system].down}
            = KeysAt(RallyKeys[system], tick + RallyTicks)

InitRally ==
    /\ components = [e \in Entities |-> SetupComponents(e)]
    /\ translation = [e \in Entities |-> SetupTranslation(e)]
    /\ scale = [e \in Entities |-> SetupScale(e)]
    /\ velocity = [e \in {"Ball"} |-> Vec2(1, 1)]
    /\ collision_events = 0
    /\ ran = {}
    /\ pressed = {}
    /\ tick = -RallyTicks
    /\ panicked = FALSE

NextRally ==
    \/ move_ball
    \/ move_left_paddle /\ RallyInput("move_left_paddle")
    \/ move_right_paddle /\ RallyInput("move_right_paddle")
    \/ check_for_collisions

SpecRally == InitRally /\ [][NextRally]_vars

\* Worlds for the precondition of check_for_collisions: the world of setup,
\* and the same world with the ball bundle spawned not at all or twice.  No
\* system spawns or despawns, so the number of balls is that of the world the
\* systems are started on.
BallWorlds == { {}, {"Ball"}, {"Ball", "Ball2"} }

InitBalls ==
    \E balls \in BallWorlds :
      LET world == (Entities \ {"Ball"}) \cup balls
          spawned(e) == IF e \in balls THEN "Ball" ELSE e
      IN  /\ components = [e \in world |-> SetupComponents(spawned(e))]
          /\ translation = [e \in world |-> SetupTranslation(spawned(e))]
          /\ scale = [e \in world |-> SetupScale(spawned(e))]
          /\ velocity = [e \in balls |-> Vec2(1, 1)]
          /\ collision_events = 0
          /\ ran = {}
          /\ pressed = {}
          /\ tick = 0
          /\ panicked = FALSE

SpecBalls == InitBalls /\ [][Next]_vars

\* ---------------------------------------------------------------- claims
\* The walls and paddles: every collider but the ball itself.
Obstacles == Walls \cup Paddles

\* The step that completes a tick is the step of check_for_collisions.
CheckStep == tick' = tick + 1

\* The step of one mover.
MoverStep(system) == system \notin ran /\ system \in ran'

\* C1: each paddle's y lies in [bottom_bound, top_bound] in every state,
\* whatever keys are pressed in whatever tick.
C1_PaddleWithinBounds ==
    \A p \in Paddles :
        bottom_bound <= translation[p].y /\ translation[p].y <= top_bound

\* Reached: in the first tick of a start that has the left paddle on
\* top_bound, move_left_paddle has run with only W pressed, and the clamp has
\* held the paddle on the bound.
C1_Witness ==
    /\ tick = 0
    /\ "move_left_paddle" \in ran
    /\ pressed \cap {"W", "S"} = {"W"}
    /\ translation["LeftPaddle"].y = top_bound

\* C2: both components of the ball's velocity are +1 or -1 in every state,
\* and the ball is the only entity with a velocity.
C2_UnitVelocity ==
    /\ DOMAIN velocity = {"Ball"}
    /\ velocity["Ball"].x \in {1, -1}
    /\ velocity["Ball"].y \in {1, -1}

\* Reached: both components have been negated by check_for_collisions.
C2_Witness ==
    /\ tick > 0
    /\ velocity["Ball"] = Vec2(-1, -1)

\* C3: after check_for_collisions the number of notifications it sent is the
\* number of walls and paddles whose box overlaps the ball's box (zero when
\* there is none).
C3_OneEventPerObstacle ==
    (ran = {} /\ tick > 0) =>
        collision_events = Cardinality(Overlapping("Ball", Obstacles))

\* C4: when the ball overlaps the right wall moving right, the check of that
\* tick leaves velocity.x = -1, the next move_ball takes x one Step to the
\* left, and the ball's position changes only in move_ball, by exactly one
\* Step on each axis.
C4_RightWallBounce ==
    [][ /\ ( /\ CheckStep
              /\ Collision("Ball", "WallRight") # "None"
              /\ velocity["Ball"].x = 1 )
           => velocity'["Ball"].x = -1
        /\ ( MoverStep("move_ball") /\ Collision("Ball", "WallRight") # "None" )
           => translation'["Ball"].x = translation["Ball"].x - Step
        /\ MoverStep("move_ball")
           => /\ translation'["Ball"] =
                    MovedBy(translation["Ball"], velocity["Ball"])
              /\ Abs(translation'["Ball"].x - translation["Ball"].x) = Step
              /\ Abs(translation'["Ball"].y - translation["Ball"].y) = Step
        /\ ~MoverStep("move_ball")
           => translation'["Ball"] = translation["Ball"]
      ]_vars

\* Reached: the ball, moving left, has just stepped out of the right wall.
C4_Witness ==
    /\ "move_ball" \in ran
    /\ velocity["Ball"].x = -1
    /\ Collision("Ball", "WallRight") = "None"
    /\ collide(MovedBy(translation["Ball"], Vec2(1, 0)), scale["Ball"],
               translation["WallRight"], scale["WallRight"]) # "None"

\* The velocity the check is about to read, and what the ball overlaps then.
BallOverlaps == Overlapping("Ball", Obstacles)

\* C5 as claimed: a ball overlapping only the top wall with velocity.y = -1
\* leaves check_for_collisions with velocity.y = +1 and velocity.x unchanged.
C5_TopWallTurnsUp ==
    [][ ( /\ CheckStep
          /\ BallOverlaps = {"WallTop"}
          /\ velocity["Ball"].y = -1 )
        => /\ velocity'["Ball"].y = 1
           /\ velocity'["Ball"].x = velocity["Ball"].x
      ]_vars

\* C5 amended: a ball overlapping only the top wall with velocity.y = -1
\* leaves check_for_collisions with its velocity unchanged: velocity.y stays
\* -1 (downwards, away from the wall) and velocity.x is not touched.
C5_TopWallKeepsDown ==
    [][ ( /\ CheckStep
          /\ BallOverlaps = {"WallTop"}
          /\ velocity["Ball"].y = -1 )
        => /\ velocity'["Ball"].y = -1
           /\ velocity'["Ball"].x = velocity["Ball"].x
      ]_vars

\* Reached: the movers of a tick have run, and the check is about to see the
\* ball on the top wall alone, moving down.
C5_Witness ==
    /\ ran = Movers
    /\ BallOverlaps = {"WallTop"}
    /\ velocity["Ball"].y = -1

\* C6 as claimed: a ball overlapping the top wall and the right paddle with
\* velocity (+1, -1) leaves check_for_collisions with velocity (-1, +1).
C6_CornerFromDownward ==
    [][ ( /\ CheckStep
          /\ {"WallTop", "RightPaddle"} \subseteq BallOverlaps
          /\ velocity["Ball"] = Vec2(1, -1) )
        => velocity'["Ball"] = Vec2(-1, 1)
      ]_vars

\* C6 amended: a ball overlapping the top wall and the right paddle with
\* velocity (+1, +1), the paddle being hit on its left side, leaves
\* check_for_collisions with velocity (-1, -1): both axes flip in that tick,
\* whichever of the two colliders is visited first.
C6_CornerBothFlip ==
    [][ ( /\ CheckStep
          /\ {"WallTop", "RightPaddle"} \subseteq BallOverlaps
          /\ Collision("Ball", "RightPaddle") = "Left"
          /\ velocity["Ball"] = Vec2(1, 1) )
        => velocity'["Ball"] = Vec2(-1, -1)
      ]_vars

\* Reached: the check is about to see the ball, moving up and right, on the
\* top wall and on the left side of the right paddle.
C6_Witness ==
    /\ ran = Movers
    /\ {"WallTop", "RightPaddle"} \subseteq BallOverlaps
    /\ Collision("Ball", "RightPaddle") = "Left"
    /\ velocity["Ball"] = Vec2(1, 1)

\* A ball that starts at (0, 0) and is not deflected is at (k, k) Steps after
\* k ticks; this says that none of the first n such positions touches a wall
\* or, at whatever height a paddle stands, a paddle.
CollisionFreeRun(n) ==
    \A k \in 1..n :
        LET b == Vec2(k * Step, k * Step)
        IN  /\ \A w \in Walls :
                  collide(b, scale["Ball"], translation[w], scale[w]) = "None"
            /\ \A p \in Paddles :
                  collide(b, scale["Ball"],
                          Vec2(translation[p].x, b.y), scale[p]) = "None"

\* C7: a tick in which the ball overlaps no wall and no paddle after moving
\* is a pure translation (check_for_collisions changes neither velocity nor
\* position, move_ball adds velocity * Step), and from setup the ball is at
\* (N * Step, N * Step) with velocity (+1, +1) after N collision-free ticks.
C7_PureTranslation ==
    /\ [](( ran = {} /\ CollisionFreeRun(tick) )
          => /\ translation["Ball"] = Vec2(tick * Step, tick * Step)
             /\ velocity["Ball"] = Vec2(1, 1))
    /\ [][  /\ ( CheckStep /\ BallOverlaps = {} )
               => ( velocity' = velocity /\ translation' = translation )
            /\ MoverStep("move_ball")
               => /\ translation'["Ball"].x =
                        translation["Ball"].x + velocity["Ball"].x * Step
                  /\ translation'["Ball"].y =
                        translation["Ball"].y + velocity["Ball"].y * Step
                  /\ velocity' = velocity
          ]_vars

\* Reached: three or more collision-free ticks from setup have completed.
C7_Witness ==
    /\ ran = {}
    /\ tick >= 3
    /\ CollisionFreeRun(tick)
    /\ BallOverlaps = {}
    /\ translation["Ball"] = Vec2(tick * Step, tick * Step)

\* The direction the claim gives for a set of pressed keys.
Direction(up, down) ==
    (IF up \in pressed' THEN 1 ELSE 0) - (IF down \in pressed' THEN 1 ELSE 0)

\* What the claim says one paddle system does: paddle p moves to
\* clamp(y + d * Step), and nothing else moves.
PaddleStepAsClaimed(system, p, up, down) ==
    MoverStep(system) =>
        /\ translation' =
              [translation EXCEPT
                 ![p].y = Clamp(@ + Direction(up, down) * Step,
                                bottom_bound, top_bound)]
        /\ ( {up, down} \subseteq pressed' ) =>
              translation'[p].y = translation[p].y
        /\ ( translation[p].y = 0 /\ up \in pressed' /\ down \notin pressed' ) =>
              translation'[p].y = Step
        /\ velocity' = velocity
        /\ scale' = scale

\* C8: one application of paddle_movement sets y' = clamp(y + d * Step,
\* bottom_bound, top_bound) with d = up - down (both keys held: d = 0; only
\* up from y = 0: y' = Step) and leaves the paddle's x, the other paddle and
\* the ball alone; W/S drive the left paddle, Up/Down the right one.
C8_PaddleStep ==
    [][ /\ PaddleStepAsClaimed("move_left_paddle", "LeftPaddle", "W", "S")
        /\ PaddleStepAsClaimed("move_right_paddle", "RightPaddle", "Up", "Down")
      ]_vars

\* Reached: in the first tick of the start that has the left paddle at
\* y = 0, move_left_paddle has run with only W pressed and the paddle is at
\* one Step; in the same tick the right paddle has run with both keys held.
C8_Witness ==
    /\ tick = 0
    /\ {"move_left_paddle", "move_right_paddle"} \subseteq ran
    /\ pressed = {"W", "Up", "Down"}
    /\ translation["LeftPaddle"].y = Step

\* The translations after the movers have run in the order `order`, reading
\* the pressed keys `keys`.
RECURSIVE RunMovers(_, _, _)
RunMovers(order, tr, keys) ==
    IF order = << >>
    THEN tr
    ELSE LET system == Head(order)
             next == IF system = "move_ball"
                     THEN BallMoved(tr)
                     ELSE LET sys == PaddleSystems[system]
                          IN  PaddleMoved(tr, sys.marker, sys.up, sys.down, keys)
         IN  RunMovers(Tail(order), next, keys)

Keys == {"W", "S", "Up", "Down"}

\* C9: every step of a tick is a mover that has not yet run in it, or
\* check_for_collisions after all three movers have run, which ends the
\* tick; and at the start of a tick, for every keyboard state, every order of
\* the three movers leaves the same translations for the check to read.
C9_MoversBeforeCheck ==
    /\ [](ran = {} =>
            \A keys \in SUBSET Keys :
              \A order \in Orderings(Movers) :
                RunMovers(order, translation, keys) =
                  RunMovers(<< "move_ball", "move_left_paddle", "move_right_paddle" >>,
                            translation, keys))
    /\ [][  \/ /\ \E m \in Movers : ran' = ran \cup {m} /\ m \notin ran
              /\ tick' = tick
              /\ velocity' = velocity
           \/ /\ ran = Movers
              /\ ran' = {}
              /\ tick' = tick + 1
              /\ translation' = translation
          ]_vars

\* Reached: a check has run after the three movers, in a tick in which both
\* paddles and the ball have moved.
C9_Witness ==
    /\ tick = 1
    /\ ran = {}
    /\ \E s \in PlayStarts :
          /\ translation["Ball"] =
                Vec2((s.ball.x + s.v.x) * Step, (s.ball.y + s.v.y) * Step)
          /\ translation["LeftPaddle"].y = (s.left - 1) * Step
          /\ translation["RightPaddle"].y = (s.right + 1) * Step

\* C10: the entities, their components and their scales stay as setup made
\* them, as do the walls' translations and the paddles' x; of a velocity
\* only the sign of a component changes; and check_for_collisions does not
\* change any translation.
C10_Frame ==
    /\ [](/\ components = [e \in Entities |-> SetupComponents(e)]
          /\ scale = [e \in Entities |-> SetupScale(e)]
          /\ DOMAIN translation = Entities
          /\ DOMAIN velocity = {"Ball"}
          /\ \A w \in Walls : translation[w] = SetupTranslation(w)
          /\ \A p \in Paddles : translation[p].x = SetupTranslation(p).x)
    /\ [][ /\ Abs(velocity'["Ball"].x) = Abs(velocity["Ball"].x)
           /\ Abs(velocity'["Ball"].y) = Abs(velocity["Ball"].y)
           /\ CheckStep => translation' = translation
           /\ ~CheckStep => velocity' = velocity
          ]_vars

\* Reached: ticks have run in which the ball was deflected on both axes and
\* both paddles have left their starting heights by more than a Step.
C10_Witness ==
    /\ tick >= 3
    /\ velocity["Ball"] = Vec2(-1, -1)
    /\ \E s \in PlayStarts :
          /\ Abs(translation["LeftPaddle"].y - s.left * Step) > Step
          /\ Abs(translation["RightPaddle"].y - s.right * Step) > Step
          /\ translation["Ball"] # Vec2(s.ball.x * Step, s.ball.y * Step)

\* The ball query of check_for_collisions.
BallQuery == Query({"Ball", "Velocity", "Transform"})

\* C11: when check_for_collisions runs with no ball or with more than one,
\* the tick aborts: the error state is entered, no velocity is changed, no
\* notification is sent, the tick does not complete and nothing runs after
\* it; in a world with exactly one ball the error state is never entered.
C11_SingleBallOrAbort ==
    /\ [](Cardinality(BallQuery) = 1 => ~panicked)
    /\ [][  /\ ( ran = Movers /\ Cardinality(BallQuery) # 1 )
               => /\ panicked'
                  /\ velocity' = velocity
                  /\ collision_events' = collision_events
                  /\ tick' = tick
            /\ ~panicked
          ]_vars

\* Reached: the check of the first tick has aborted on two balls, both of
\* which move_ball had moved.
C11_Witness ==
    /\ panicked
    /\ Cardinality(BallQuery) = 2
    /\ \A b \in BallQuery : translation[b] = Vec2(Step, Step)

\* The collider query of check_for_collisions.
ColliderQuery == Query({"Collider", "Transform"})

\* The rule of the claim: which component a collider classified `collision`
\* negates for a ball of velocity v.
FlipsX(collision, v) ==
    (collision = "Left" /\ v.x > 0) \/ (collision = "Right" /\ v.x < 0)

FlipsY(collision, v) ==
    (collision = "Top" /\ v.y < 0) \/ (collision = "Bottom" /\ v.y > 0)

\* The velocity the rule gives after the colliders of `order` have been
\* visited one after the other, starting from velocity v.
RECURSIVE RuleVisits(_, _)
RuleVisits(order, v) ==
    IF order = << >>
    THEN v
    ELSE LET c == Collision("Ball", Head(order))
         IN  RuleVisits(Tail(order),
                        Vec2(IF FlipsX(c, v) THEN -v.x ELSE v.x,
                             IF FlipsY(c, v) THEN -v.y ELSE v.y))

\* The i-th visit of the loop over `order` obeys the rule.
VisitObeysRule(order, i) ==
    LET start == [velocity |-> velocity["Ball"], events |-> 0]
        before == VisitColliders("Ball", SubSeq(order, 1, i - 1), start)
        after == VisitCollider("Ball", order[i], before)
        c == Collision("Ball", order[i])
        v == before.velocity
        w == after.velocity
    IN  /\ (w.x = -v.x) <=> FlipsX(c, v)
        /\ (w.y = -v.y) <=> FlipsY(c, v)
        /\ w.x \in {v.x, -v.x} /\ w.y \in {v.y, -v.y}
        /\ w.x = v.x \/ w.y = v.y
        /\ c \in {"Inside", "None"} => w = v
        /\ order[i] = "Ball" => c = "Inside"

\* C12: every visit of the loop of check_for_collisions negates at most one
\* velocity component, and exactly when the ball moves toward the classified
\* side (Left: x if velocity.x > 0; Right: x if velocity.x < 0; Top: y if
\* velocity.y < 0; Bottom: y if velocity.y > 0; Inside: nothing); the ball's
\* own collider always classifies as Inside; and the velocity the check
\* leaves is the one these visits give for some iteration order.
C12_ReflectionRule ==
    /\ [](ran = Movers =>
            \A order \in IterationOrders("Ball", ColliderQuery) :
              \A i \in 1..Len(order) : VisitObeysRule(order, i))
    /\ [](Collision("Ball", "Ball") = "Inside")
    /\ [][ CheckStep =>
             \E order \in IterationOrders("Ball", ColliderQuery) :
               velocity'["Ball"] = RuleVisits(order, velocity["Ball"])
         ]_vars

\* Reached: the check is about to visit, besides the ball itself (Inside),
\* the top wall on its bottom side and the left paddle on its top side,
\* with the ball moving up: the wall negates y, and the paddle, visited after
\* it, negates y again.
C12_Witness ==
    /\ ran = Movers
    /\ velocity["Ball"].y = 1
    /\ Collision("Ball", "WallTop") = "Bottom"
    /\ Collision("Ball", "LeftPaddle") = "Top"

\* The walls the ball's box overlaps after the step.
WallsOverlapped == {w \in Walls : Collision("Ball", w) # "None"}

WallsOverlappedNext ==
    {w \in Walls : collide(translation'["Ball"], scale'["Ball"],
                           translation'[w], scale'[w]) # "None"}

\* C13: a wall the ball's box overlaps at the end of a tick is not overlapped
\* at the end of the next tick.  The ball's position at the end of a tick is
\* the one move_ball left in it, so this is: move_ball never takes the ball
\* from a position that overlaps a wall to one that overlaps the same wall.
C13_WallOverlapOneTick ==
    [][ MoverStep("move_ball") => WallsOverlapped \cap WallsOverlappedNext = {}
      ]_vars

\* The velocities check_for_collisions can leave in the current state, one
\* for each iteration order of the collider query.
OrderResults ==
    { VisitColliders("Ball", order,
                     [velocity |-> velocity["Ball"], events |-> 0]).velocity :
        order \in IterationOrders("Ball", ColliderQuery) }

\* The ball is moving up and overlaps the top wall from below and a paddle
\* from above.
OnWallAndPaddleTop ==
    /\ velocity["Ball"].y = 1
    /\ Collision("Ball", "WallTop") = "Bottom"
    /\ \E p \in Paddles : Collision("Ball", p) = "Top"

\* C14: the iteration order can decide the velocity.  Whenever the check is
\* about to run with the ball moving up on the top wall and on the top side
\* of a paddle, the two orders leave different velocities (wall first:
\* unchanged, still upwards; paddle first: velocity.y = -1), and each check
\* leaves one of the velocities of OrderResults; the order matters only when
\* more than one wall or paddle is overlapped.  That such a state is reached
\* is C14_Witness.
C14_OrderDecides ==
    /\ [](ran = Movers =>
            /\ OnWallAndPaddleTop =>
                  /\ OrderResults = { velocity["Ball"],
                                      [velocity["Ball"] EXCEPT !.y = -1] }
                  /\ Cardinality(OrderResults) = 2
            /\ Cardinality(OrderResults) > 1 => Cardinality(BallOverlaps) > 1)
    /\ [][ CheckStep => velocity'["Ball"] \in OrderResults ]_vars

\* Reached: the check is about to run on a ball that overlaps more than one
\* wall or paddle, and two iteration orders of the colliders leave different
\* velocities.
C14_Witness ==
    /\ ran = Movers
    /\ Cardinality(BallOverlaps) > 1
    /\ \E o1, o2 \in IterationOrders("Ball", ColliderQuery) :
          VisitColliders("Ball", o1,
                         [velocity |-> velocity["Ball"], events |-> 0]).velocity
          # VisitColliders("Ball", o2,
                           [velocity |-> velocity["Ball"], events |-> 0]).velocity

\* C15: at the end of every tick the ball's centre is inside the arena:
\* LEFT_WALL <= x <= RIGHT_WALL and BOTTOM_WALL <= y <= TOP_WALL.
C15_BallInArena ==
    ran = {} =>
        /\ Fx(LEFT_WALL) <= translation["Ball"].x
        /\ translation["Ball"].x <= Fx(RIGHT_WALL)
        /\ Fx(BOTTOM_WALL) <= translation["Ball"].y
        /\ translation["Ball"].y <= Fx(TOP_WALL)

====
